---- MODULE Spec2Model ----
(***************************************************************************)
(* Model of yawt/transcription.py: the first transcription pass            *)
(* (transcribe_segments), the bounded inference call                       *)
(* (model_generate_with_timeout), the per-segment transcriber              *)
(* (transcribe_single_segment), the acceptance gate (evaluate_confidence)  *)
(* and the retry loop (retry_transcriptions), driven as main() drives them.*)
(*                                                                         *)
(* Confidences and thresholds of the gate are hundredths (0.6 is 60), the   *)
(* per-token probabilities of the scorer 120ths (1.0 is 120).  A language   *)
(* token is a sequence of one-character strings, so that str.lower() and   *)
(* the slice [:2] are computed character by character.                     *)
(***************************************************************************)
EXTENDS Integers, Sequences, FiniteSets, TLC

\* ------------------------------------------------------------------ bounds
MaxSegments == 2
MaxScores == 3
MaxTokens == 6

\* ------------------------------------------------------- program constants
max_retries == 3
confidence_threshold == 60

\* ------------------------------------------------------------ value domains
\* Optional[str] language: None is a token no str equals.
None == <<"None">>
\* Optional[str] transcription text: None is distinct from the empty str.
NoneText == "<None>"

EN == <<"e", "n">>
ES == <<"e", "s">>
ES_UPPER == <<"E", "S">>
ENG == <<"e", "n", "g">>
SPA == <<"s", "p", "a">>
ZZ == <<"z", "z">>
EMPTY == <<>>

main_language == EN

\* str.lower(), one character at a time.
LowerChar(c) ==
    CASE c = "E" -> "e"
      [] c = "N" -> "n"
      [] c = "S" -> "s"
      [] c = "G" -> "g"
      [] c = "P" -> "p"
      [] c = "A" -> "a"
      [] c = "Z" -> "z"
      [] OTHER -> c

RECURSIVE lower(_)
lower(s) == IF s = <<>> THEN <<>> ELSE <<LowerChar(Head(s))>> \o lower(Tail(s))

\* s[:2]
Prefix2(s) == SubSeq(s, 1, IF Len(s) < 2 THEN Len(s) ELSE 2)

\* Python truthiness of an Optional[str] language / text.
Truthy(s) == s # None /\ s # EMPTY
TruthyText(t) == t # NoneText /\ t # ""

\* An excerpt of the module-level set built from iso639.iter_langs():
\* two-letter codes, three-letter codes, all lower case.
valid_codes == {EN, ENG, ES, SPA}

is_valid_language_code(code) == lower(code) \in valid_codes

\* ------------------------------------------------------ the acceptance gate
\* The gate without its first test: a confidence of 0 is compared with the
\* threshold like any other.
evaluate_confidence_without_zero_test(overall_confidence, language_token, threshold, main_lang) ==
    /\ overall_confidence >= threshold
    /\ language_token # None
    /\ is_valid_language_code(language_token)
    /\ is_valid_language_code(main_lang)
    /\ lower(language_token) = lower(main_lang)

evaluate_confidence(overall_confidence, language_token, threshold, main_lang) ==
    IF overall_confidence = 0
    THEN FALSE
    ELSE LET is_high_confidence == overall_confidence >= threshold
             is_main_language ==
                 IF language_token = None
                 THEN FALSE
                 ELSE IF ~is_valid_language_code(language_token)
                         \/ ~is_valid_language_code(main_lang)
                      THEN FALSE
                      ELSE lower(language_token) = lower(main_lang)
         IN  is_high_confidence /\ is_main_language

\* ------------------------------------------------------------------- inputs
\* A diarization segment {speaker_id, start, end}; two distinct ones, so a
\* list may hold the same speaker and bounds twice.
SegmentChoices ==
    { [speaker_id |-> "Speaker1", start |-> 0, end |-> 5],
      [speaker_id |-> "Speaker2", start |-> 5, end |-> 9] }

\* The diarization collaborator supplies the segments ordered by start.
SegmentLists ==
    { l \in UNION { [1..n -> SegmentChoices] : n \in 0..MaxSegments } :
        \A p \in 1..Len(l) : \A q \in p..Len(l) : l[p].start <= l[q].start }

\* args.secondary_language: absent, unrecognized, or recognized as a
\* two-letter and as a three-letter code.
SecondaryChoices == {None, ZZ, ES, SPA}

\* What transcribe_single_segment returns on any failure.
Sentinel == [text |-> NoneText, confidence |-> 0, language |-> None]

\* A successful generation, already decoded: (batch_decode(..).strip(),
\* aggregate_confidence(..), extract_language_token(..)).
Outputs ==
    { [text |-> "hello", confidence |-> 90, language |-> EN],
      [text |-> "hola",  confidence |-> 90, language |-> ES],
      [text |-> "",      confidence |-> 90, language |-> ES],
      [text |-> "hmm",   confidence |-> 30, language |-> EN] }

\* How model.generate behaves in the worker: it returns an output with
\* sequences and scores, returns an object without them, raises, or never
\* returns.
GenBehaviours ==
    { [kind |-> "output", out |-> o] : o \in Outputs }
    \cup { [kind |-> k, out |-> Sentinel] : k \in {"noattrs", "raise", "hang"} }

NoGen == [kind |-> "none", out |-> Sentinel]

\* ------------------------------------------------------- generation options
\* A dict is a function from its keys; {} has none.
EmptyDict == [k \in {} |-> 0]

\* d.get(k, default)
dict_get(d, k, default) == IF k \in DOMAIN d THEN d[k] ELSE default

\* d[k] = v
dict_set(d, k, v) == [x \in DOMAIN d \cup {k} |-> IF x = k THEN v ELSE d[x]]

Min(a, b) == IF a <= b THEN a ELSE b
Max(a, b) == IF a >= b THEN a ELSE b

\* main.py lines 368-370: the mapping ModelResources shares with every call,
\* empty or holding the context prompt's decoder_input_ids.  A tensor of
\* prompt tokens is kept as its length, shape[-1].
ContextPromptLength == 3
SharedGenerateKwargs ==
    { EmptyDict, [decoder_input_ids |-> ContextPromptLength] }

\* Line 218: the default torch.tensor([]) has shape[-1] = 0.
prompt_length(kwargs) == dict_get(kwargs, "decoder_input_ids", 0)

\* Line 219 without its floor: what the lengths leave.
max_new_tokens_without_floor(max_length, input_length, prompt_len, buffer_tokens) ==
    max_length - input_length - prompt_len - buffer_tokens - 1

\* Line 219 with a floor of one token.
max_new_tokens_floored_at_one(max_length, input_length, prompt_len, buffer_tokens) ==
    Max(1, max_length - input_length - prompt_len - buffer_tokens - 1)

\* Line 219
max_new_tokens(max_length, input_length, prompt_len, buffer_tokens) ==
    Max(256, max_length - input_length - prompt_len - buffer_tokens - 1)

\* Lines 212-234 written on the caller's dict itself, the copy left out.
adjusted_generate_kwargs_in_place(kwargs, main_lang, limit, features) ==
    LET with_language ==
            IF Truthy(main_lang)
            THEN dict_set(kwargs, "language", main_lang) ELSE kwargs
        with_limit ==
            dict_set(with_language, "max_new_tokens",
                     Min(dict_get(with_language, "max_new_tokens", limit), limit))
        with_features ==
            IF "input_features" \notin DOMAIN with_limit
            THEN dict_set(with_limit, "input_features", features)
            ELSE with_limit
    IN  [caller |-> with_features, adjusted |-> with_features]

\* Lines 212-234: transcribe_single_segment copies the caller's dict and
\* writes language, max_new_tokens and input_features into the copy.
\* caller is the caller's dict afterwards, adjusted the dict handed on.
adjusted_generate_kwargs(kwargs, main_lang, limit, features) ==
    LET with_language ==
            IF Truthy(main_lang)
            THEN dict_set(kwargs, "language", main_lang) ELSE kwargs
        with_limit ==
            dict_set(with_language, "max_new_tokens",
                     Min(dict_get(with_language, "max_new_tokens", limit), limit))
        with_features ==
            IF "input_features" \notin DOMAIN with_limit
            THEN dict_set(with_limit, "input_features", features)
            ELSE with_limit
    IN  [caller |-> kwargs, adjusted |-> with_features]

\* Lines 407-408: retry_transcriptions copies the shared dict and sets the
\* retry language in the copy.
current_generate_kwargs(kwargs, l) ==
    [caller |-> kwargs, current |-> dict_set(kwargs, "language", l)]

\* The lengths transcribe_single_segment reads for a segment of the run:
\* model.config.max_length, inputs['input_features'].shape[1] and the
\* configured buffer_tokens.
RunLimits == [max_length |-> 448, input_length |-> 30, buffer_tokens |-> 5]

\* Lines 212-234 for one segment of the run.
segment_generate_kwargs(kwargs, main_lang, segment) ==
    adjusted_generate_kwargs(kwargs, main_lang,
        max_new_tokens(RunLimits.max_length, RunLimits.input_length,
                       prompt_length(kwargs), RunLimits.buffer_tokens),
        <<segment.start, segment.end>>)

VARIABLES
    diarization_segments,   \* the input list
    secondary_language,     \* args.secondary_language
    transcription_segments, \* the result list
    failed_segments,        \* the current failure list
    retry_failed_segments,  \* the failure list a retry round is building
    lang,                   \* the retry language, secondary_language.lower()[:2]
    pc,                     \* "first", "main", "retry_loop", "retry_round", "done"
    idx,                    \* first pass: 1-based segment index; round: position
    attempt,                \* the retry round, 1..max_retries
    worker,                 \* the executor's thread: "idle", "running", "finished"
    gen,                    \* what model.generate does in that thread
    wait,                   \* where model_generate_with_timeout stands:
                            \* "none", "result" (future.result), "shutdown"
                            \* (TimeoutError raised, leaving the with block)
    raised,                 \* history: indices whose first-pass handling raised
    accepted,               \* history: indices whose result passed the gate
    first_results,          \* history: the lists transcribe_segments returned
    first_failed,
    rounds,                 \* history: retry rounds started
    generate_kwargs,        \* the dict ModelResources shares with every call
    call_kwargs,            \* the dict handed to the inference call in flight
    abandoned,              \* workers of ended calls that are still running
    pure                    \* a pure function under evaluation (PureSpec)

pipeline_vars ==
    << diarization_segments, secondary_language, transcription_segments,
       failed_segments, retry_failed_segments, lang, pc, idx, attempt,
       worker, gen, wait, raised, accepted, first_results, first_failed,
       rounds, generate_kwargs, call_kwargs, abandoned >>

vars == << pipeline_vars, pure >>

NoPure == [op |-> "none"]

\* --------------------------------------------- model_generate_with_timeout
\* The with block is left, by return or by raise, only through
\* ThreadPoolExecutor.__exit__, which is shutdown(wait=True): it joins the
\* worker thread.  So the call ends only once the worker has finished.
\* The with block left as soon as future.result returns or raises, the
\* executor shut down without waiting for its thread.
ExecutorExited_without_join ==
    \/ wait = "shutdown"
    \/ wait = "result" /\ worker = "finished"

ExecutorExited == wait \in {"result", "shutdown"} /\ worker = "finished"

\* The call hands back whatever the worker ends with, whether or not
\* future.result timed out before.
model_generate_with_timeout_late_result(w, g) ==
    IF g.kind = "raise" THEN "Exception" ELSE "returned"

\* How the call ends: TimeoutException when future.result timed out, the
\* worker's own exception when generate raised, the output otherwise.
model_generate_with_timeout(w, g) ==
    IF w = "shutdown" THEN "TimeoutException"
    ELSE IF g.kind = "raise" THEN "Exception"
    ELSE "returned"

\* ------------------------------------------------ transcribe_single_segment
\* ended: how the inference call ended, or "Exception" when a step before
\* the call raised.  Every except clause and the unexpected-format branch
\* return the sentinel.
transcribe_single_segment(ended, g) ==
    IF ended = "returned" /\ g.kind = "output" THEN g.out ELSE Sentinel

\* ------------------------------------------------------ transcribe_segments
\* The flag from the confidence alone, the language left out.
low_confidence_by_confidence_alone(r) == r.confidence < confidence_threshold

low_confidence(r) ==
    r.confidence < confidence_threshold
    \/ ~evaluate_confidence(r.confidence, r.language, confidence_threshold,
                            main_language)

\* The transcript dict; seg is a history field (the index of the segment
\* the dict was built for), which the code does not keep.
Transcript(segment, r, i) ==
    [ speaker_id     |-> segment.speaker_id,
      start          |-> segment.start,
      end            |-> segment.end,
      text           |-> IF TruthyText(r.text) THEN r.text ELSE "",
      confidence     |-> r.confidence,
      language       |-> r.language,
      low_confidence |-> low_confidence(r),
      seg            |-> i ]

LowConfidenceFailure(i, segment, r) ==
    [ segment_index |-> i,
      segment       |-> segment,
      transcription |-> r.text,
      confidence    |-> r.confidence,
      language      |-> r.language,
      reason        |-> "low_confidence" ]

ExceptionFailure(i, segment) ==
    [ segment_index |-> i, segment |-> segment, reason |-> "exception" ]

\* Lines 335-359 for segment i with the transcriber's result r.
FirstPassRecord(i, r) ==
    LET segment    == diarization_segments[i]
        transcript == Transcript(segment, r, i)
    IN  /\ transcription_segments' = Append(transcription_segments, transcript)
        /\ failed_segments' =
               IF transcript.low_confidence
               THEN Append(failed_segments, LowConfidenceFailure(i, segment, r))
               ELSE failed_segments
        /\ accepted' = IF transcript.low_confidence
                       THEN accepted ELSE accepted \cup {i}

CallIdle == worker = "idle" /\ wait = "none"

\* Slicing the audio or building the inputs (lines 312-317) raises: the
\* except clause records a failure, and no transcript is appended.
FirstPrepareRaises ==
    /\ pc = "first" /\ idx <= Len(diarization_segments) /\ CallIdle
    /\ failed_segments' =
           Append(failed_segments, ExceptionFailure(idx, diarization_segments[idx]))
    /\ raised' = raised \cup {idx}
    /\ idx' = idx + 1
    /\ UNCHANGED << diarization_segments, secondary_language,
                    transcription_segments, retry_failed_segments, lang, pc,
                    attempt, worker, gen, wait, accepted, first_results,
                    first_failed, rounds,
                    generate_kwargs, call_kwargs, abandoned, pure >>

\* A step of transcribe_single_segment before the inference call raises
\* (lines 212-234): the sentinel comes back without any inference.
FirstSingleRaises ==
    /\ pc = "first" /\ idx <= Len(diarization_segments) /\ CallIdle
    /\ FirstPassRecord(idx, transcribe_single_segment("Exception", NoGen))
    /\ idx' = idx + 1
    /\ UNCHANGED << diarization_segments, secondary_language,
                    retry_failed_segments, lang, pc, attempt, worker, gen,
                    wait, raised, first_results, first_failed, rounds,
                    generate_kwargs, call_kwargs, abandoned, pure >>

\* executor.submit(generate), then future.result(timeout=..) starts waiting.
FirstSubmit ==
    /\ pc = "first" /\ idx <= Len(diarization_segments) /\ CallIdle
    /\ \E g \in GenBehaviours : gen' = g
    /\ worker' = "running"
    /\ wait' = "result"
    /\ LET a == segment_generate_kwargs(generate_kwargs, main_language,
                                        diarization_segments[idx])
       IN  generate_kwargs' = a.caller /\ call_kwargs' = a.adjusted
    /\ UNCHANGED << diarization_segments, secondary_language,
                    transcription_segments, failed_segments,
                    retry_failed_segments, lang, pc, idx, attempt, raised,
                    accepted, first_results, first_failed, rounds,
                    abandoned, pure >>

\* The worker thread: generate() returns or raises.  A hung generation
\* never takes this step.
WorkerFinishes ==
    /\ worker = "running" /\ gen.kind # "hang"
    /\ worker' = "finished"
    /\ UNCHANGED << diarization_segments, secondary_language,
                    transcription_segments, failed_segments,
                    retry_failed_segments, lang, pc, idx, attempt, gen, wait,
                    raised, accepted, first_results, first_failed,
                    rounds,
                    generate_kwargs, call_kwargs, abandoned, pure >>

\* future.result(timeout) expires before the worker finished: TimeoutError
\* is caught and TimeoutException raised, which leaves the with block.
FutureResultTimesOut ==
    /\ wait = "result" /\ worker = "running"
    /\ wait' = "shutdown"
    /\ UNCHANGED << diarization_segments, secondary_language,
                    transcription_segments, failed_segments,
                    retry_failed_segments, lang, pc, idx, attempt, worker,
                    gen, raised, accepted, first_results, first_failed,
                    rounds,
                    generate_kwargs, call_kwargs, abandoned, pure >>

\* The inference call has ended; the rest of the loop body runs.
FirstComplete ==
    /\ pc = "first" /\ ExecutorExited
    /\ FirstPassRecord(idx,
           transcribe_single_segment(model_generate_with_timeout(wait, gen), gen))
    /\ idx' = idx + 1
    /\ worker' = "idle" /\ wait' = "none" /\ gen' = NoGen
    /\ call_kwargs' = EmptyDict
    /\ abandoned' = abandoned + (IF worker = "running" THEN 1 ELSE 0)
    /\ UNCHANGED << diarization_segments, secondary_language,
                    retry_failed_segments, lang, pc, attempt, raised,
                    first_results, first_failed, rounds,
                    generate_kwargs, pure >>

\* transcribe_segments returns both lists to main().
FirstPassReturns ==
    /\ pc = "first" /\ idx = Len(diarization_segments) + 1 /\ CallIdle
    /\ pc' = "main"
    /\ first_results' = transcription_segments
    /\ first_failed' = failed_segments
    /\ UNCHANGED << diarization_segments, secondary_language,
                    transcription_segments, failed_segments,
                    retry_failed_segments, lang, idx, attempt, worker, gen,
                    wait, raised, accepted, rounds,
                    generate_kwargs, call_kwargs, abandoned, pure >>

\* ------------------------------------------------------------------- main()
\* main.py line 473: if failed_segments and args.secondary_language
main_retries(failed, secondary) == failed # <<>> /\ Truthy(secondary)

\* The test of line 385 without the validator.
secondary_usable_unvalidated(secondary) == Truthy(secondary)

\* transcription.py line 385
secondary_usable(secondary) ==
    Truthy(secondary) /\ is_valid_language_code(secondary)

\* transcription.py line 386
retry_language(secondary) == Prefix2(lower(secondary))

\* The guard at main.py 473 is false: retry_transcriptions is not called.
MainSkipsRetry ==
    /\ pc = "main" /\ ~main_retries(failed_segments, secondary_language)
    /\ pc' = "done"
    /\ UNCHANGED << diarization_segments, secondary_language,
                    transcription_segments, failed_segments,
                    retry_failed_segments, lang, idx, attempt, worker, gen,
                    wait, raised, accepted, first_results, first_failed,
                    rounds,
                    generate_kwargs, call_kwargs, abandoned, pure >>

\* retry_transcriptions returns at line 390: no usable secondary language.
RetryRejectsLanguage ==
    /\ pc = "main" /\ main_retries(failed_segments, secondary_language)
    /\ ~secondary_usable(secondary_language)
    /\ pc' = "done"
    /\ UNCHANGED << diarization_segments, secondary_language,
                    transcription_segments, failed_segments,
                    retry_failed_segments, lang, idx, attempt, worker, gen,
                    wait, raised, accepted, first_results, first_failed,
                    rounds,
                    generate_kwargs, call_kwargs, abandoned, pure >>

\* retry_transcriptions sets lang and reaches the for loop.
RetryEnters ==
    /\ pc = "main" /\ main_retries(failed_segments, secondary_language)
    /\ secondary_usable(secondary_language)
    /\ lang' = retry_language(secondary_language)
    /\ attempt' = 1
    /\ pc' = "retry_loop"
    /\ UNCHANGED << diarization_segments, secondary_language,
                    transcription_segments, failed_segments,
                    retry_failed_segments, idx, worker, gen, wait, raised,
                    accepted, first_results, first_failed, rounds,
                    generate_kwargs, call_kwargs, abandoned, pure >>

\* ----------------------------------------------------- retry_transcriptions
\* for attempt in range(1, max_retries + 1): if not failed_segments: break
round_runs(n, failed) == n <= max_retries /\ failed # <<>>

RetryRoundStarts ==
    /\ pc = "retry_loop" /\ round_runs(attempt, failed_segments)
    /\ pc' = "retry_round"
    /\ idx' = 1
    /\ retry_failed_segments' = <<>>
    /\ rounds' = rounds + 1
    /\ UNCHANGED << diarization_segments, secondary_language,
                    transcription_segments, failed_segments, lang, attempt,
                    worker, gen, wait, raised, accepted, first_results,
                    first_failed,
                    generate_kwargs, call_kwargs, abandoned, pure >>

RetryLoopEnds ==
    /\ pc = "retry_loop" /\ ~round_runs(attempt, failed_segments)
    /\ pc' = "done"
    /\ UNCHANGED << diarization_segments, secondary_language,
                    transcription_segments, failed_segments,
                    retry_failed_segments, lang, idx, attempt, worker, gen,
                    wait, raised, accepted, first_results, first_failed,
                    rounds,
                    generate_kwargs, call_kwargs, abandoned, pure >>

\* Line 433: the retry's result is taken.
retry_accepts(r, l) ==
    TruthyText(r.text)
    /\ evaluate_confidence(r.confidence, r.language, confidence_threshold, l)

SameSegment(t_seg, seg) ==
    /\ t_seg.speaker_id = seg.speaker_id
    /\ t_seg.start = seg.start
    /\ t_seg.end = seg.end

\* Lines 435-442: the first dict of the list with seg's speaker and bounds
\* is overwritten; when none matches the list is left as it is.
update_transcription_segment(ts, seg, r) ==
    LET matches == { p \in 1..Len(ts) : SameSegment(ts[p], seg) }
    IN  IF matches = {}
        THEN ts
        ELSE LET p == CHOOSE m \in matches : \A o \in matches : m <= o
             IN  [ts EXCEPT ![p].text = r.text,
                            ![p].confidence = r.confidence,
                            ![p].language = r.language]

\* Lines 433-445 for one failure record with the transcriber's result r.
RetryRecord(failure, r) ==
    LET i   == failure.segment_index
        seg == diarization_segments[i]
    IN  IF retry_accepts(r, lang)
        THEN /\ transcription_segments' =
                    update_transcription_segment(transcription_segments, seg, r)
             /\ accepted' = accepted \cup {i}
             /\ UNCHANGED retry_failed_segments
        ELSE /\ retry_failed_segments' = Append(retry_failed_segments, failure)
             /\ UNCHANGED << transcription_segments, accepted >>

InRound == pc = "retry_round" /\ idx <= Len(failed_segments)

\* Lines 407-415 raise: the except clause carries the failure over.
RetryPrepareRaises ==
    /\ InRound /\ CallIdle
    /\ retry_failed_segments' =
           Append(retry_failed_segments, failed_segments[idx])
    /\ idx' = idx + 1
    /\ UNCHANGED << diarization_segments, secondary_language,
                    transcription_segments, failed_segments, lang, pc,
                    attempt, worker, gen, wait, raised, accepted,
                    first_results, first_failed, rounds,
                    generate_kwargs, call_kwargs, abandoned, pure >>

RetrySingleRaises ==
    /\ InRound /\ CallIdle
    /\ RetryRecord(failed_segments[idx],
                   transcribe_single_segment("Exception", NoGen))
    /\ idx' = idx + 1
    /\ UNCHANGED << diarization_segments, secondary_language,
                    failed_segments, lang, pc, attempt, worker, gen, wait,
                    raised, first_results, first_failed, rounds,
                    generate_kwargs, call_kwargs, abandoned, pure >>

RetrySubmit ==
    /\ InRound /\ CallIdle
    /\ \E g \in GenBehaviours : gen' = g
    /\ worker' = "running"
    /\ wait' = "result"
    /\ LET c == current_generate_kwargs(generate_kwargs, lang)
           a == segment_generate_kwargs(c.current, lang,
                                        failed_segments[idx].segment)
       IN  generate_kwargs' = c.caller /\ call_kwargs' = a.adjusted
    /\ UNCHANGED << diarization_segments, secondary_language,
                    transcription_segments, failed_segments,
                    retry_failed_segments, lang, pc, idx, attempt, raised,
                    accepted, first_results, first_failed, rounds,
                    abandoned, pure >>

RetryComplete ==
    /\ pc = "retry_round" /\ ExecutorExited
    /\ RetryRecord(failed_segments[idx],
           transcribe_single_segment(model_generate_with_timeout(wait, gen), gen))
    /\ idx' = idx + 1
    /\ worker' = "idle" /\ wait' = "none" /\ gen' = NoGen
    /\ call_kwargs' = EmptyDict
    /\ abandoned' = abandoned + (IF worker = "running" THEN 1 ELSE 0)
    /\ UNCHANGED << diarization_segments, secondary_language,
                    failed_segments, lang, pc, attempt, raised,
                    first_results, first_failed, rounds,
                    generate_kwargs, pure >>

\* Line 450 appending the round's list to the failure list.
RetryRoundEnds_appending ==
    /\ pc = "retry_round" /\ idx = Len(failed_segments) + 1 /\ CallIdle
    /\ failed_segments' = failed_segments \o retry_failed_segments
    /\ attempt' = attempt + 1
    /\ pc' = "retry_loop"
    /\ UNCHANGED << diarization_segments, secondary_language,
                    transcription_segments, retry_failed_segments, lang, idx,
                    worker, gen, wait, raised, accepted, first_results,
                    first_failed, rounds,
                    generate_kwargs, call_kwargs, abandoned, pure >>

\* Line 450: the failure list is replaced by the round's list.
RetryRoundEnds ==
    /\ pc = "retry_round" /\ idx = Len(failed_segments) + 1 /\ CallIdle
    /\ failed_segments' = retry_failed_segments
    /\ attempt' = attempt + 1
    /\ pc' = "retry_loop"
    /\ UNCHANGED << diarization_segments, secondary_language,
                    transcription_segments, retry_failed_segments, lang, idx,
                    worker, gen, wait, raised, accepted, first_results,
                    first_failed, rounds,
                    generate_kwargs, call_kwargs, abandoned, pure >>

\* ------------------------------------------------------------ specification
Init ==
    /\ diarization_segments \in SegmentLists
    /\ secondary_language \in SecondaryChoices
    /\ transcription_segments = <<>>
    /\ failed_segments = <<>>
    /\ retry_failed_segments = <<>>
    /\ lang = None
    /\ pc = "first"
    /\ idx = 1
    /\ attempt = 0
    /\ worker = "idle"
    /\ gen = NoGen
    /\ wait = "none"
    /\ raised = {}
    /\ accepted = {}
    /\ first_results = <<>>
    /\ first_failed = <<>>
    /\ rounds = 0
    /\ generate_kwargs \in SharedGenerateKwargs
    /\ call_kwargs = EmptyDict
    /\ abandoned = 0
    /\ pure = NoPure

Next ==
    \/ FirstPrepareRaises
    \/ FirstSingleRaises
    \/ FirstSubmit
    \/ WorkerFinishes
    \/ FutureResultTimesOut
    \/ FirstComplete
    \/ FirstPassReturns
    \/ MainSkipsRetry
    \/ RetryRejectsLanguage
    \/ RetryEnters
    \/ RetryRoundStarts
    \/ RetryLoopEnds
    \/ RetryPrepareRaises
    \/ RetrySingleRaises
    \/ RetrySubmit
    \/ RetryComplete
    \/ RetryRoundEnds

Spec == Init /\ [][Next]_vars

\* --------------------------------------- lines 212-241, the token budget
\* transcribe_single_segment up to the inference call: whether the runner
\* is invoked, with which options, and what is returned at once if not.
prepare_inference(kwargs, main_lang, max_length, input_length, buffer_tokens, features) ==
    LET with_language ==
            IF Truthy(main_lang)
            THEN dict_set(kwargs, "language", main_lang) ELSE kwargs
        limit == max_new_tokens(max_length, input_length,
                                prompt_length(with_language), buffer_tokens)
    IN  IF limit <= 0
        THEN [ runner_invoked |-> FALSE,
               kwargs         |-> EmptyDict,
               early_return   |-> <<Sentinel>> ]
        ELSE [ runner_invoked |-> TRUE,
               kwargs         |->
                   adjusted_generate_kwargs(kwargs, main_lang, limit,
                                            features).adjusted,
               early_return   |-> <<>> ]

\* ------------------------------------------------ lines 312-314, 410-412
\* yawt.config.SAMPLING_RATE, samples per second.
SAMPLING_RATE == 16000

\* Seconds are kept in tenths.  int(x) of a float that is not negative
\* drops the fraction.
int_seconds(tenths) == tenths \div 10

\* The sample range [from, to) of audio_array[int(chunk_start * SAMPLING_RATE)
\* : int(chunk_end * SAMPLING_RATE)]; a slice stops at the array's length.
chunk_bounds(start, end, audio_length) ==
    LET chunk_start == int_seconds(start)
        chunk_end   == int_seconds(end)
        a == Min(chunk_start * SAMPLING_RATE, audio_length)
        b == Min(chunk_end * SAMPLING_RATE, audio_length)
    IN  [from |-> a, to |-> Max(a, b)]

\* ------------------------------------------------------ aggregate_confidence
\* Per-token probabilities are kept in 120ths (1.0 is FullConfidence), so
\* that the mean of up to six of the values drawn below is a whole number
\* and \div is the division the code performs.
FullConfidence == 120

RECURSIVE sum(_)
sum(xs) == IF xs = <<>> THEN 0 ELSE Head(xs) + sum(Tail(xs))

\* The mean taken over one token more than there are.
aggregate_confidence_off_by_one(token_confidences) ==
    IF token_confidences = <<>>
    THEN 0
    ELSE sum(token_confidences) \div (Len(token_confidences) + 1)

aggregate_confidence(token_confidences) ==
    IF token_confidences = <<>>
    THEN 0
    ELSE sum(token_confidences) \div Len(token_confidences)

\* ---------------------------------------------------- extract_language_token
\* A token is the sequence of its characters; the name inside a marker is
\* kept as one symbol when it is not a language code.
MarkerOpen == <<"<", "|">>
MarkerClose == <<"|", ">">>
StartOfTranscript == MarkerOpen \o <<"startoftranscript">> \o MarkerClose
NoTimestamps == MarkerOpen \o <<"notimestamps">> \o MarkerClose
LanguageEN == MarkerOpen \o EN \o MarkerClose
LanguageESUpper == MarkerOpen \o ES_UPPER \o MarkerClose
TextToken == <<"h", "i">>

startswith(token, prefix) ==
    Len(token) >= Len(prefix) /\ SubSeq(token, 1, Len(prefix)) = prefix

endswith(token, suffix) ==
    /\ Len(token) >= Len(suffix)
    /\ SubSeq(token, Len(token) - Len(suffix) + 1, Len(token)) = suffix

\* token[2:-2]
marker_name(token) == SubSeq(token, 3, Len(token) - 2)

\* The loop body of lines 187-193 over the tokens it is given.
RECURSIVE scan_language(_)
scan_language(tokens) ==
    IF tokens = <<>>
    THEN None
    ELSE LET token == Head(tokens)
         IN  IF startswith(token, MarkerOpen) /\ endswith(token, MarkerClose)
             THEN LET lang_code == marker_name(token)
                  IN  IF is_valid_language_code(lang_code)
                      THEN lang_code
                      ELSE scan_language(Tail(tokens))
             ELSE IF token # StartOfTranscript
                  THEN None
                  ELSE scan_language(Tail(tokens))

\* The scan over the whole sequence, the slice [:5] left out.
extract_language_token_unbounded(tokens) == scan_language(tokens)

extract_language_token(tokens) ==
    scan_language(SubSeq(tokens, 1, Min(5, Len(tokens))))

\* ----------------------------------------------- compute_per_token_confidence
RECURSIVE repeat(_, _)
repeat(x, n) == IF n = 0 THEN <<>> ELSE <<x>> \o repeat(x, n - 1)

\* outputs: has_sequences and has_scores are the hasattr tests, sequences
\* the generated tokens, scores the top probability of each step's softmax.
compute_per_token_confidence(outputs) ==
    IF outputs.has_scores
    THEN outputs.scores
    ELSE repeat(FullConfidence, Len(outputs.sequences))

\* batch_decode(.., skip_special_tokens=True)[0].strip(), as far as it
\* matters here: the text is empty when no text token was generated.
batch_decode(tokens) ==
    IF \E p \in 1..Len(tokens) : tokens[p] = TextToken THEN "hi" ELSE ""

\* Lines 247-259 with the test for sequences alone.
output_result_without_scores_test(outputs) ==
    IF outputs.has_sequences
    THEN [ text       |-> batch_decode(outputs.sequences),
           confidence |-> aggregate_confidence(compute_per_token_confidence(outputs)),
           language   |-> extract_language_token(outputs.sequences) ]
    ELSE Sentinel

\* Lines 247-259: what transcribe_single_segment returns for an output.
output_result(outputs) ==
    IF outputs.has_sequences /\ outputs.has_scores
    THEN [ text       |-> batch_decode(outputs.sequences),
           confidence |-> aggregate_confidence(compute_per_token_confidence(outputs)),
           language   |-> extract_language_token(outputs.sequences) ]
    ELSE Sentinel

\* ------------------------------------------- pure functions under evaluation
\* PureSpec draws the arguments of a pure function and applies it once; the
\* pipeline stands still (pc = "pure").
GateConfidences == {0, 30, 59, 60, 90}
GateThresholds == {0, 60}
GateDetected == {None, EMPTY, EN, ES, ES_UPPER, ENG, ZZ}
GateTargets == {EN, ES, ES_UPPER, ENG, ZZ}

SeqsUpTo(S, n) == UNION { [1..k -> S] : k \in 0..n }

Evaluation(name, a) == [op |-> name, args |-> a, done |-> FALSE, ret |-> FALSE]

GateEvaluations ==
    { Evaluation("evaluate_confidence",
                 [confidence |-> c, language |-> l, threshold |-> t, target |-> m]) :
        c \in GateConfidences, l \in GateDetected,
        t \in GateThresholds, m \in GateTargets }

\* model.config.max_length, inputs['input_features'].shape[1], buffer_tokens
\* and the options as main() builds them, with a short and a long prompt.
BudgetMaxLengths == {20, 291, 292, 448}
BudgetInputLengths == {30, 80}
BudgetBuffers == {0, 5}
BudgetKwargs ==
    SharedGenerateKwargs \cup { [decoder_input_ids |-> 400] }

BudgetEvaluations ==
    { Evaluation("prepare_inference",
                 [kwargs |-> k, max_length |-> m, input_length |-> i,
                  buffer_tokens |-> b]) :
        k \in BudgetKwargs, m \in BudgetMaxLengths,
        i \in BudgetInputLengths, b \in BudgetBuffers }

TokenConfidences == {0, 60, FullConfidence}

AggregateEvaluations ==
    { Evaluation("aggregate_confidence", [token_confidences |-> tc]) :
        tc \in SeqsUpTo(TokenConfidences, MaxScores) }

Tokens ==
    {StartOfTranscript, NoTimestamps, LanguageEN, LanguageESUpper, TextToken}

LanguageScanEvaluations ==
    { Evaluation("extract_language_token", [tokens |-> ts]) :
        ts \in SeqsUpTo(Tokens, MaxTokens) }

\* Generated sequences: without a context prompt, after one, and empty.
GeneratedSequences ==
    { <<StartOfTranscript, LanguageEN, NoTimestamps, TextToken>>,
      <<TextToken, StartOfTranscript, LanguageEN, TextToken>>,
      <<>> }

ModelOutputs ==
    { [has_sequences |-> q, has_scores |-> c, sequences |-> ts, scores |-> sc] :
        q \in BOOLEAN, c \in BOOLEAN, ts \in GeneratedSequences,
        sc \in SeqsUpTo(TokenConfidences, MaxScores) }

ScoreEvaluations ==
    { Evaluation("compute_per_token_confidence", [outputs |-> o]) :
        o \in { x \in ModelOutputs : x.has_sequences } }

OutputEvaluations ==
    { Evaluation("output_result", [outputs |-> o]) : o \in ModelOutputs }

\* Segment bounds in tenths of a second, in an audio of three seconds.
SliceTimes == {0, 5, 10, 12, 18, 25, 30}

SliceBounds == { b \in SliceTimes \X SliceTimes : b[1] < b[2] }

SliceEvaluations ==
    { Evaluation("chunk_bounds",
                 [start |-> b[1], end |-> b[2],
                  audio_length |-> 3 * SAMPLING_RATE]) : b \in SliceBounds }

\* Options of a caller that sets max_new_tokens itself.
CallerLimitKwargs ==
    { dict_set(k, "max_new_tokens", n) : k \in BudgetKwargs, n \in {100, 300} }

CallerLimitEvaluations ==
    { Evaluation("prepare_inference_caller_limit",
                 [kwargs |-> k, max_length |-> m, input_length |-> i,
                  buffer_tokens |-> b]) :
        k \in CallerLimitKwargs, m \in BudgetMaxLengths,
        i \in BudgetInputLengths, b \in BudgetBuffers }

PureEvaluations ==
    GateEvaluations \cup BudgetEvaluations \cup AggregateEvaluations
    \cup LanguageScanEvaluations \cup ScoreEvaluations \cup OutputEvaluations
    \cup SliceEvaluations \cup CallerLimitEvaluations

PureInit ==
    /\ diarization_segments = <<>>
    /\ secondary_language = None
    /\ transcription_segments = <<>>
    /\ failed_segments = <<>>
    /\ retry_failed_segments = <<>>
    /\ lang = None
    /\ pc = "pure"
    /\ idx = 1
    /\ attempt = 0
    /\ worker = "idle"
    /\ gen = NoGen
    /\ wait = "none"
    /\ raised = {}
    /\ accepted = {}
    /\ first_results = <<>>
    /\ first_failed = <<>>
    /\ rounds = 0
    /\ generate_kwargs = EmptyDict
    /\ call_kwargs = EmptyDict
    /\ abandoned = 0
    /\ pure \in PureEvaluations

PureEvaluateConfidence ==
    /\ pure.op = "evaluate_confidence" /\ ~pure.done
    /\ pure' = [pure EXCEPT
                   !.done = TRUE,
                   !.ret = evaluate_confidence(pure.args.confidence,
                                               pure.args.language,
                                               pure.args.threshold,
                                               pure.args.target)]
    /\ UNCHANGED pipeline_vars

PurePrepareInference ==
    /\ pure.op = "prepare_inference" /\ ~pure.done
    /\ pure' = [pure EXCEPT
                   !.done = TRUE,
                   !.ret = prepare_inference(pure.args.kwargs, main_language,
                                             pure.args.max_length,
                                             pure.args.input_length,
                                             pure.args.buffer_tokens,
                                             <<0, 5>>)]
    /\ UNCHANGED pipeline_vars

PureAggregateConfidence ==
    /\ pure.op = "aggregate_confidence" /\ ~pure.done
    /\ pure' = [pure EXCEPT
                   !.done = TRUE,
                   !.ret = aggregate_confidence(pure.args.token_confidences)]
    /\ UNCHANGED pipeline_vars

PureExtractLanguageToken ==
    /\ pure.op = "extract_language_token" /\ ~pure.done
    /\ pure' = [pure EXCEPT
                   !.done = TRUE,
                   !.ret = extract_language_token(pure.args.tokens)]
    /\ UNCHANGED pipeline_vars

PureComputePerTokenConfidence ==
    /\ pure.op = "compute_per_token_confidence" /\ ~pure.done
    /\ pure' = [pure EXCEPT
                   !.done = TRUE,
                   !.ret = compute_per_token_confidence(pure.args.outputs)]
    /\ UNCHANGED pipeline_vars

PureOutputResult ==
    /\ pure.op = "output_result" /\ ~pure.done
    /\ pure' = [pure EXCEPT
                   !.done = TRUE,
                   !.ret = output_result(pure.args.outputs)]
    /\ UNCHANGED pipeline_vars

PureChunkBounds ==
    /\ pure.op = "chunk_bounds" /\ ~pure.done
    /\ pure' = [pure EXCEPT
                   !.done = TRUE,
                   !.ret = chunk_bounds(pure.args.start, pure.args.end,
                                        pure.args.audio_length)]
    /\ UNCHANGED pipeline_vars

PurePrepareInferenceCallerLimit ==
    /\ pure.op = "prepare_inference_caller_limit" /\ ~pure.done
    /\ pure' = [pure EXCEPT
                   !.done = TRUE,
                   !.ret = prepare_inference(pure.args.kwargs, main_language,
                                             pure.args.max_length,
                                             pure.args.input_length,
                                             pure.args.buffer_tokens,
                                             <<0, 5>>)]
    /\ UNCHANGED pipeline_vars

PureNext ==
    \/ PureEvaluateConfidence
    \/ PurePrepareInference
    \/ PureAggregateConfidence
    \/ PureExtractLanguageToken
    \/ PureComputePerTokenConfidence
    \/ PureOutputResult
    \/ PureChunkBounds
    \/ PurePrepareInferenceCallerLimit

PureSpec == PureInit /\ [][PureNext]_vars

\* ------------------------------------------------------------------- claims
NumSegments == Len(diarization_segments)

\* The positions of the result list built for segment i.
ResultsOf(i) ==
    { p \in 1..Len(transcription_segments) : transcription_segments[p].seg = i }

FailedIndices(failed) == { failed[k].segment_index : k \in 1..Len(failed) }

\* Segments the first pass has gone through.
Processed == IF pc = "first" THEN idx - 1 ELSE NumSegments

\* Results that are not in the current failure list.
AcceptedCount ==
    Cardinality({ i \in 1..NumSegments :
                    ResultsOf(i) # {} /\ i \notin FailedIndices(failed_segments) })

\* C1: when the pipeline has finished, the result list holds exactly one
\* TranscriptionResult per input segment, and the accepted results plus the
\* remaining failures count the input segments.
C1_OneResultPerSegment ==
    pc = "done" =>
        /\ Len(transcription_segments) = NumSegments
        /\ \A i \in 1..NumSegments : Cardinality(ResultsOf(i)) = 1
        /\ AcceptedCount + Len(failed_segments) = NumSegments

\* C2: after the first pass and after each retry round, every segment index
\* either has a result that passed the acceptance gate or has a record in
\* the current failure list, never both and never neither.
C2_ResultsAndFailuresPartition ==
    pc \in {"main", "retry_loop", "done"} =>
        \A i \in 1..NumSegments :
            (i \in accepted /\ ResultsOf(i) # {})
                <=> (i \notin FailedIndices(failed_segments))

\* C3: once the timeout of an inference call has expired, control comes
\* back to the orchestrator whatever the worker does: the run is never
\* stuck behind a generation that does not return.
C3_TimeoutReturnsControl == wait = "shutdown" => ENABLED Next

\* C4: the retry loop always terminates, runs at most max_retries rounds,
\* runs a round only while failures remain, stops early only with an empty
\* failure list, and, when no retry is accepted, runs exactly max_retries
\* rounds and ends with a failure list as long as the first-pass one.
C4_RetryLoopTerminates ==
    /\ pc \in {"retry_loop", "retry_round"} => ENABLED Next
    /\ rounds <= max_retries
    /\ pc = "retry_round" => failed_segments # <<>>
    /\ (pc = "done" /\ lang # None) =>
           /\ rounds = max_retries \/ failed_segments = <<>>
           /\ (accepted \cap FailedIndices(first_failed) = {}) =>
                  /\ rounds = max_retries
                  /\ Len(failed_segments) = Len(first_failed)

\* The rounds of C4 alone, which hold of the loop.
RetryRoundsBounded ==
    /\ rounds <= max_retries
    /\ pc = "retry_round" => failed_segments # <<>>
    /\ (pc = "done" /\ lang # None) =>
           /\ rounds = max_retries \/ failed_segments = <<>>
           /\ (accepted \cap FailedIndices(first_failed) = {}) =>
                  /\ rounds = max_retries
                  /\ Len(failed_segments) = Len(first_failed)

\* C5: with the secondary language absent or unrecognized, or with no
\* first-pass failure, no retry round runs, no inference is started after
\* the first pass, and both lists stay as the first pass returned them.
C5_NoRetryWithoutLanguageOrFailures ==
    ( /\ pc # "first"
      /\ \/ secondary_language = None
         \/ ~is_valid_language_code(secondary_language)
         \/ first_failed = <<>> )
    => /\ rounds = 0
       /\ pc \in {"main", "done"}
       /\ worker = "idle" /\ wait = "none"
       /\ transcription_segments = first_results
       /\ failed_segments = first_failed

\* C5 witness: an unrecognized secondary language, first-pass failures, and
\* the run finished.
C5_Witness ==
    /\ pc = "done"
    /\ secondary_language = ZZ
    /\ first_failed # <<>>
    /\ failed_segments = first_failed

\* C6: evaluate_confidence accepts exactly when the confidence is not 0, it
\* reaches the threshold, a language was detected, both languages are
\* recognized and they are equal once lower-cased; confidence 0 is rejected
\* whatever the threshold and the languages.
C6_AcceptIffConfidentAndSameLanguage ==
    (pure.op = "evaluate_confidence" /\ pure.done) =>
        LET a == pure.args
        IN  /\ pure.ret <=>
                  ( /\ a.confidence # 0
                    /\ a.confidence >= a.threshold
                    /\ a.language # None
                    /\ lower(a.language) \in valid_codes
                    /\ lower(a.target) \in valid_codes
                    /\ lower(a.language) = lower(a.target) )
            /\ a.confidence = 0 => ~pure.ret

\* C6 witness: confidence 0 against threshold 0 with matching languages has
\* been evaluated.
C6_Witness ==
    /\ pure.op = "evaluate_confidence" /\ pure.done
    /\ pure.args.confidence = 0 /\ pure.args.threshold = 0
    /\ pure.args.language = ES_UPPER /\ pure.args.target = ES
    /\ ~pure.ret

\* C7: a step that accepts the retry of the failing segment i overwrites
\* text, confidence and language of the result built for segment i with the
\* retry's values and changes no other result.  Stated for the segments
\* that have a result, so that the step at fault is the matching on speaker
\* and bounds and not a result the first pass never built.
C7_RetryUpdatesOwnResult ==
    [][ ( /\ pc = "retry_round" /\ ExecutorExited
          /\ idx' = idx + 1
          /\ retry_failed_segments' = retry_failed_segments
          /\ ResultsOf(failed_segments[idx].segment_index) # {} )
        => LET i == failed_segments[idx].segment_index
               r == transcribe_single_segment(
                        model_generate_with_timeout(wait, gen), gen)
           IN  \E p \in ResultsOf(i) :
                   transcription_segments' =
                       [transcription_segments EXCEPT
                           ![p].text = r.text,
                           ![p].confidence = r.confidence,
                           ![p].language = r.language]
      ]_vars

\* C8: a retry step removes the failing segment from the failure list
\* exactly when the acceptance gate accepts the retry's result against the
\* secondary language; a retry that raised keeps it.
C8_RemovedIffGateAccepts ==
    [][ (pc = "retry_round" /\ idx' = idx + 1)
        => LET removed == retry_failed_segments' = retry_failed_segments
               r == transcribe_single_segment(
                        model_generate_with_timeout(wait, gen), gen)
           IN  IF ExecutorExited
               THEN removed <=> evaluate_confidence(r.confidence, r.language,
                                                    confidence_threshold,
                                                    secondary_language)
               ELSE ~removed
      ]_vars

\* C9: during and after the first pass every result has low_confidence equal
\* to the negated gate, and the failure list holds, in input order and once
\* each, the processed segments that are low-confidence or raised, each with
\* its 1-based index and its diarization segment.
C9_FirstPassFailures ==
    pc \in {"first", "main"} =>
        LET expected ==
                { i \in 1..Processed :
                    \/ i \in raised
                    \/ \E p \in ResultsOf(i) :
                           transcription_segments[p].low_confidence }
        IN  /\ \A p \in 1..Len(transcription_segments) :
                   LET t == transcription_segments[p]
                   IN  t.low_confidence =
                           ~evaluate_confidence(t.confidence, t.language,
                                                confidence_threshold,
                                                main_language)
            /\ FailedIndices(failed_segments) = expected
            /\ Len(failed_segments) = Cardinality(expected)
            /\ \A k \in 1..Len(failed_segments) :
                   /\ failed_segments[k].segment =
                          diarization_segments[failed_segments[k].segment_index]
                   /\ \A j \in 1..(k - 1) :
                          failed_segments[j].segment_index
                              < failed_segments[k].segment_index

\* C9 witness: the first pass has returned with one segment rejected for
\* its language alone and another whose handling raised.
C9_Witness ==
    /\ pc = "main"
    /\ raised # {}
    /\ \E p \in 1..Len(transcription_segments) :
           /\ transcription_segments[p].low_confidence
           /\ transcription_segments[p].confidence >= confidence_threshold
    /\ Len(failed_segments) = 2

\* C10: a segment whose audio slicing or input building raised in the first
\* pass still has a TranscriptionResult with empty text and confidence 0,
\* and a FailureRecord.
C10_FailedSegmentKeepsResult ==
    pc \in {"first", "main"} =>
        \A i \in 1..Processed :
            i \in raised =>
                /\ i \in FailedIndices(failed_segments)
                /\ \E p \in ResultsOf(i) :
                       /\ transcription_segments[p].text = ""
                       /\ transcription_segments[p].confidence = 0

\* Worker threads executing a generation call.
RunningWorkers == abandoned + (IF worker = "running" THEN 1 ELSE 0)

C12_OneWorkerAtATime ==
    /\ RunningWorkers <= 1
    /\ CallIdle => RunningWorkers = 0
    /\ pc \in {"main", "retry_loop", "done"} => (CallIdle /\ RunningWorkers = 0)

\* C12 witness: the second attempt of a retry round has timed out while its
\* worker is still executing.
C12_Witness ==
    /\ pc = "retry_round" /\ idx = 2
    /\ wait = "shutdown" /\ worker = "running"
    /\ RunningWorkers = 1

\* C16: while a retry attempt's inference call is in flight, the language
\* forced as generation hint and the language the gate will compare with are
\* the secondary language the caller supplied.
C16_RetryUsesSecondaryLanguage ==
    (pc = "retry_round" /\ wait # "none") =>
        /\ call_kwargs.language = lower(secondary_language)
        /\ lang = lower(secondary_language)

\* C17: during the first pass the results and failures recorded so far are
\* those of segments 1..idx-1, each once and in input order, an inference
\* call in flight carries the primary language as hint, and the pass can
\* always take a further step until it has returned.
C17_FirstPassReachesEnd ==
    pc = "first" =>
        /\ ENABLED Next
        /\ idx <= NumSegments + 1
        /\ \A i \in 1..NumSegments :
               /\ Cardinality(ResultsOf(i)) <= 1
               /\ (ResultsOf(i) # {} \/ i \in raised) <=> i < idx
        /\ \A p \in 1..Len(transcription_segments) :
               \A q \in 1..(p - 1) :
                   transcription_segments[q].seg < transcription_segments[p].seg
        /\ wait # "none" => call_kwargs.language = main_language

\* C19: no step changes the generation options ModelResources shares, and
\* these never hold a language, a max_new_tokens or an input_features key.
C19_SharedKwargsNeverMutated ==
    [][ /\ generate_kwargs' = generate_kwargs
        /\ DOMAIN generate_kwargs' \subseteq {"decoder_input_ids"}
      ]_vars

\* C19 witness: in a second retry round an inference call is in flight with
\* the retry language, the token limit and the segment's features in its
\* own options, the shared options still holding the context prompt alone.
C19_Witness ==
    /\ pc = "retry_round" /\ rounds = 2 /\ wait = "result"
    /\ generate_kwargs = [decoder_input_ids |-> ContextPromptLength]
    /\ call_kwargs.language = ES
    /\ call_kwargs.max_new_tokens = 409
    /\ "input_features" \in DOMAIN call_kwargs

\* C13: for every max_length, input_length, prompt length and buffer_tokens,
\* the inference call is made with max_new_tokens equal to the difference
\* max_length - input_length - prompt_length - buffer_tokens - 1, or to 256
\* when that difference is below 256; it is 412 for 448, 30, 0 and 5.
C13_LimitIsFlooredBudget ==
    (pure.op = "prepare_inference" /\ pure.done) =>
        LET a   == pure.args
            raw == a.max_length - a.input_length
                   - dict_get(a.kwargs, "decoder_input_ids", 0)
                   - a.buffer_tokens - 1
        IN  /\ pure.ret.runner_invoked
            /\ pure.ret.kwargs.max_new_tokens = (IF raw < 256 THEN 256 ELSE raw)
            /\ ( /\ a.max_length = 448 /\ a.input_length = 30
                 /\ a.kwargs = EmptyDict /\ a.buffer_tokens = 5 )
               => pure.ret.kwargs.max_new_tokens = 412

\* C13 witness: the lengths leave 255 tokens and the call is made with 256.
C13_Witness ==
    /\ pure.op = "prepare_inference" /\ pure.done
    /\ pure.args.max_length = 291 /\ pure.args.input_length = 30
    /\ pure.args.kwargs = EmptyDict /\ pure.args.buffer_tokens = 5
    /\ pure.ret.kwargs.max_new_tokens = 256

C15_AggregateIsMean ==
    (pure.op = "aggregate_confidence" /\ pure.done) =>
        LET tc == pure.args.token_confidences
        IN  IF Len(tc) = 0
            THEN pure.ret = 0
            ELSE /\ pure.ret * Len(tc) = sum(tc)
                 /\ pure.ret >= 0 /\ pure.ret <= FullConfidence

\* C15 witness: the mean of 0.0, 1.0 and 0.5 has been taken.
C15_Witness ==
    /\ pure.op = "aggregate_confidence" /\ pure.done
    /\ pure.args.token_confidences = <<0, FullConfidence, 60>>
    /\ pure.ret = 60

\* C18: extract_language_token returns the name of the first marker, among
\* the first five tokens, that holds a recognized language and is preceded
\* by markers only, and no language when there is none; a sequence that
\* begins with a token that is not a marker yields no language.
C18_FirstLanguageMarkerInWindow ==
    (pure.op = "extract_language_token" /\ pure.done) =>
        LET ts == pure.args.tokens
            n  == IF Len(ts) < 5 THEN Len(ts) ELSE 5
            IsMarker(t) ==
                /\ Len(t) >= 2
                /\ <<t[1], t[2]>> = <<"<", "|">>
                /\ <<t[Len(t) - 1], t[Len(t)]>> = <<"|", ">">>
            Name(t) == [k \in 1..(Len(t) - 4) |-> t[k + 2]]
            hits ==
                { p \in 1..n :
                    /\ IsMarker(ts[p])
                    /\ lower(Name(ts[p])) \in valid_codes
                    /\ \A q \in 1..(p - 1) : IsMarker(ts[q]) }
        IN  /\ IF hits = {}
               THEN pure.ret = None
               ELSE LET first == CHOOSE p \in hits : \A o \in hits : p <= o
                    IN  pure.ret = Name(ts[first])
            /\ (Len(ts) > 0 /\ ~IsMarker(ts[1])) => pure.ret = None

\* C18 witness: a language marker in sixth place, behind five start tokens,
\* has not been returned.
C18_Witness ==
    /\ pure.op = "extract_language_token" /\ pure.done
    /\ Len(pure.args.tokens) = 6
    /\ \A p \in 1..5 : pure.args.tokens[p] = StartOfTranscript
    /\ pure.args.tokens[6] = LanguageEN
    /\ pure.ret = None

\* C20: for an output without scores compute_per_token_confidence returns
\* as many 1.0 as the output sequence has tokens, and what
\* transcribe_single_segment returns for such an output has a confidence
\* other than 1.0 and passes the gate for no threshold and no language.
C20_NoScoresNeverAccepted ==
    /\ ( /\ pure.op = "compute_per_token_confidence" /\ pure.done
         /\ ~pure.args.outputs.has_scores )
       => /\ Len(pure.ret) = Len(pure.args.outputs.sequences)
          /\ \A k \in 1..Len(pure.ret) : pure.ret[k] = FullConfidence
    /\ ( /\ pure.op = "output_result" /\ pure.done
         /\ ~pure.args.outputs.has_scores )
       => /\ pure.ret.confidence # FullConfidence
          /\ \A t \in {0, 72} : \A m \in {EN, ES} :
                 ~evaluate_confidence(pure.ret.confidence, pure.ret.language,
                                      t, m)

\* C20 witness: an output with an English transcript and no scores has been
\* turned into the sentinel.
C20_Witness ==
    /\ pure.op = "output_result" /\ pure.done
    /\ pure.args.outputs.has_sequences /\ ~pure.args.outputs.has_scores
    /\ pure.args.outputs.sequences[2] = LanguageEN
    /\ pure.ret = Sentinel

\* C21: for bounds start < end, whole seconds or not, the slice is the
\* sample range [start * SAMPLING_RATE, end * SAMPLING_RATE), it is not
\* empty, and it does not overlap the slice of a segment whose time interval
\* does not overlap.
C21_SliceIsSegmentRange ==
    (pure.op = "chunk_bounds" /\ pure.done) =>
        LET a == pure.args
        IN  /\ pure.ret.from * 10 = a.start * SAMPLING_RATE
            /\ pure.ret.to * 10 = a.end * SAMPLING_RATE
            /\ pure.ret.from < pure.ret.to
            /\ \A s \in SliceTimes : \A e \in SliceTimes :
                   (s < e /\ (e <= a.start \/ a.end <= s)) =>
                       LET o == chunk_bounds(s, e, a.audio_length)
                       IN  o.to <= pure.ret.from \/ pure.ret.to <= o.from

\* C24: the bound of line 219 is at least 256 whatever the lengths, so the
\* runner is invoked also when the lengths leave nothing, and the limit
\* handed on is below 256 only when the caller's options held that smaller
\* max_new_tokens.
C24_BoundAtLeastFloor ==
    (pure.op \in {"prepare_inference", "prepare_inference_caller_limit"}
     /\ pure.done) =>
        LET a == pure.args
        IN  /\ max_new_tokens(a.max_length, a.input_length,
                              dict_get(a.kwargs, "decoder_input_ids", 0),
                              a.buffer_tokens) >= 256
            /\ pure.ret.runner_invoked
            /\ pure.ret.early_return = <<>>
            /\ pure.ret.kwargs.max_new_tokens < 256 =>
                   /\ "max_new_tokens" \in DOMAIN a.kwargs
                   /\ a.kwargs.max_new_tokens = pure.ret.kwargs.max_new_tokens

\* C24 witness: the lengths leave a negative number of tokens, the caller
\* set no limit, and the runner has been invoked with 256.
C24_Witness ==
    /\ pure.op = "prepare_inference" /\ pure.done
    /\ pure.args.max_length = 20 /\ pure.args.input_length = 80
    /\ pure.ret.runner_invoked
    /\ pure.ret.kwargs.max_new_tokens = 256

\* sub is full with some of its elements left out, the order kept.
RECURSIVE IsSubList(_, _)
IsSubList(sub, full) ==
    IF sub = <<>> THEN TRUE
    ELSE IF full = <<>> THEN FALSE
    ELSE IF Head(sub) = Head(full)
         THEN IsSubList(Tail(sub), Tail(full))
         ELSE IsSubList(sub, Tail(full))

NoDuplicateIndex(failed) ==
    \A j \in 1..Len(failed) : \A k \in 1..Len(failed) :
        failed[j].segment_index = failed[k].segment_index => j = k

\* C22: when the pipeline has finished, a result has low_confidence set
\* exactly when its segment is in the returned failure list.
C22_LowConfidenceIffFailed ==
    pc = "done" =>
        \A p \in 1..Len(transcription_segments) :
            transcription_segments[p].low_confidence
                <=> (transcription_segments[p].seg
                         \in FailedIndices(failed_segments))

\* C23: after the first pass the failure list is a sub-list of the
\* first-pass one without a repeated index; the list a round builds is a
\* sub-list of the records the round has gone through, one attempt each;
\* there are at most max_retries rounds; and no record still to be retried
\* is of a segment whose result was accepted.  With n first-pass calls at most,
\* that is at most 1 + max_retries calls for a segment and
\* n + max_retries * Len(first_failed) in all.
C23_FailureListOnlyShrinks ==
    /\ pc # "first" =>
           /\ IsSubList(failed_segments, first_failed)
           /\ NoDuplicateIndex(failed_segments)
           /\ Len(first_failed) <= NumSegments
    /\ pc = "retry_round" =>
           /\ idx <= Len(failed_segments) + 1
           /\ IsSubList(retry_failed_segments,
                        SubSeq(failed_segments, 1, idx - 1))
    /\ rounds <= max_retries
    /\ \A k \in 1..Len(failed_segments) :
           (pc \in {"main", "retry_loop", "done"}
            \/ (pc = "retry_round" /\ k >= idx))
           => failed_segments[k].segment_index \notin accepted

\* C23 witness: of two first-pass failures the first was accepted in a
\* retry and the second is left after max_retries rounds.
C23_Witness ==
    /\ pc = "done" /\ rounds = max_retries
    /\ Len(first_failed) = 2
    /\ failed_segments = <<first_failed[2]>>
====
